---- MODULE Spec2Model ----
\* Friendlytime: the presence-tracked chat relay of the server (WebSocket
\* registry, message log, history retrieval), its friends and bookings
\* routes, and the chat widget and booking dialog of the client.
EXTENDS Integers, Sequences, FiniteSets, TLC

\* ---------------------------------------------------------------- bounds
MaxMsgs == 2          \* chat messages persisted in a run
MaxTime == 2          \* clock ticks in a run
MaxBookings == 2      \* bookings created in a run
MaxFrames == 3        \* frames the chat client sends in a run
MaxView == 2          \* messages in the chat client's view
TicksPerSecond == 2   \* clock ticks per second of CURRENT_TIMESTAMP

\* ---------------------------------------------------------------- values
\* the WebSocket objects the server accepts in a run
Conns == {"c1", "c2"}
\* ids of user records (AUTOINCREMENT starts at 1)
Users == {1, 2}
\* numbers a client can put in a frame; 0 is the falsy number
UserIds == {0} \cup Users
Contents == {"hi", "yo"}
\* JS null in the closure variable userId (no valid id is negative)
NULL == -1
\* a content field that is null or missing from the frame
NoContent == "<null>"
\* Map.get() of an absent key
None == "none"
\* path parameters of GET /api/messages/:userId/:otherId are strings
Params == {"0", "1", "2", "x"}
\* SQL leaves the order of rows with equal ORDER BY keys undefined: a build's
\* sorter keeps them in scan (rowid) order or emits them reversed
TieOrders == {"rowid", "reverse"}
\* the rows the seed inserts into an empty users table
SeedUsers ==
    << [id |-> 1, name |-> "Aarav",  role |-> "friend", city |-> "Mumbai"],
       [id |-> 2, name |-> "Ishani", role |-> "friend", city |-> "Delhi"],
       [id |-> 3, name |-> "Rohan",  role |-> "friend", city |-> "Bangalore"],
       [id |-> 4, name |-> "Priya",  role |-> "friend", city |-> "Pune"] >>
\* a database file that already holds users, so that the seed is skipped: the
\* role column admits customers
ExistingUsers ==
    << [id |-> 1, name |-> "Meera", role |-> "customer", city |-> "Pune"],
       [id |-> 2, name |-> "Ishani", role |-> "friend", city |-> "Delhi"] >>
\* the activity and duration options of the booking form
Activities == {"Movie Partner", "Travel Buddy"}
Durations == {"1 Hour"}

VARIABLES
    readyState,   \* readyState[c]: "idle" (not yet accepted), "open", "closing", "closed"
    userId,       \* userId[c]: the closure variable of connection c
    clients,      \* clients[u]: the Map<number, WebSocket>; None = no entry
    messages,     \* the messages table, in rowid order
    sent,         \* sent[c]: the payloads pushed with c.send(), in order
    now,          \* the wall clock, in ticks
    crashed,      \* an exception escaped a handler
    response,     \* body of the last GET /api/messages response
    tieOrder,     \* how this build's sorter orders rows with equal ORDER BY keys
    foreignKeys,  \* whether this build enforces FOREIGN KEY clauses
    users,        \* the users table, in rowid order
    bookings,     \* the bookings table, in rowid order
    reply,        \* the last reply of the friends and bookings routes
    wsRef,        \* ChatWidget: readyState of ws.current, "null" before the effect ran
    friend,       \* ChatWidget: friend.id
    input,        \* ChatWidget: the input state
    view,         \* ChatWidget: the messages state
    frames,       \* ChatWidget: the frames its socket accepted for sending
    fetchState,   \* ChatWidget: the history fetch, "idle", "pending" or "done"
    thrown,       \* ChatWidget: an exception escaped an event handler
    fetched,      \* ChatWidget: body of the history response on its way to .then
    received,     \* ChatWidget: how many pushes of its socket onmessage has handled
    isModalOpen,        \* FriendProfilePage: the confirmation modal is shown
    isBookingLoading,   \* FriendProfilePage: the modal shows "Processing..."
    isBookingSuccess,   \* FriendProfilePage: the modal shows "Booking Confirmed!"
    bookingFetch  \* FriendProfilePage: where handleConfirmBooking stands

\* what the WebSocket handlers leave alone
buildVars == <<tieOrder, foreignKeys>>
httpVars == <<users, bookings, reply>>
chatVars == <<wsRef, friend, input, view, frames, fetchState, thrown, fetched, received>>
dialogVars == <<isModalOpen, isBookingLoading, isBookingSuccess, bookingFetch>>
clientVars == <<chatVars, dialogVars>>
serverVars == <<readyState, userId, clients, messages, sent, now, crashed, response>>

vars == <<serverVars, buildVars, httpVars, clientVars>>

\* ------------------------------------------------------------ JS helpers
\* if (userId): null, undefined and 0 are falsy
Truthy(u) == u # NULL /\ u # 0

\* `${currentUserId}` in the request path
UrlParam(n) == CASE n = 0 -> "0" [] n = 1 -> "1" [] n = 2 -> "2" [] OTHER -> "x"

\* SQLite applies NUMERIC affinity to a text operand compared with an INTEGER
\* column: text that looks like a number becomes that number, other text
\* stays text and equals no integer.
LooksNumeric(p) == p \in {"0", "1", "2"}

NumericAffinity(p) == CASE p = "0" -> 0 [] p = "1" -> 1 [] p = "2" -> 2

\* column = ? with a text parameter
SqlEquals(column, p) == LooksNumeric(p) /\ column = NumericAffinity(p)

\* CURRENT_TIMESTAMP: the clock at one second resolution
CurrentTimestamp == now \div TicksPerSecond

\* new Date().toISOString(): the clock at full resolution
ToISOString == now

\* -------------------------------------------------------------- database
\* receiverWs && receiverWs.readyState === WebSocket.OPEN
Deliverable(receiverWs) == receiverWs # None /\ readyState[receiverWs] = "open"

\* variant: the record is stored only for a receiver that cannot be pushed to
InsertMessageIfOffline(senderId, receiverId, content) ==
    IF Deliverable(clients[receiverId])
    THEN messages
    ELSE Append(messages, [id          |-> Len(messages) + 1,
                           sender_id   |-> senderId,
                           receiver_id |-> receiverId,
                           content     |-> content,
                           created_at  |-> CurrentTimestamp])

\* variant: INSERT OR REPLACE keyed by the (sender, receiver) pair, which keeps
\* only the latest record of a pair
InsertMessageReplacing(senderId, receiverId, content) ==
    Append(SelectSeq(messages, LAMBDA row :
               ~(row.sender_id = senderId /\ row.receiver_id = receiverId)),
           [id          |-> Len(messages) + 1,
            sender_id   |-> senderId,
            receiver_id |-> receiverId,
            content     |-> content,
            created_at  |-> CurrentTimestamp])

\* INSERT INTO messages (sender_id, receiver_id, content) VALUES (?, ?, ?)
InsertMessage(senderId, receiverId, content) ==
    Append(messages, [id          |-> Len(messages) + 1,
                      sender_id   |-> senderId,
                      receiver_id |-> receiverId,
                      content     |-> content,
                      created_at  |-> CurrentTimestamp])

\* variant: sender_id IN (?, ?) AND receiver_id IN (?, ?)
WhereEitherParty(row, p, q) ==
    /\ (SqlEquals(row.sender_id, p) \/ SqlEquals(row.sender_id, q))
    /\ (SqlEquals(row.receiver_id, p) \/ SqlEquals(row.receiver_id, q))

\* WHERE (sender_id = ? AND receiver_id = ?) OR (sender_id = ? AND receiver_id = ?)
\* bound to (userId, otherId, otherId, userId)
WhereClause(row, p, q) ==
    \/ (SqlEquals(row.sender_id, p) /\ SqlEquals(row.receiver_id, q))
    \/ (SqlEquals(row.sender_id, q) /\ SqlEquals(row.receiver_id, p))

\* the key ORDER BY compares
OrderKey(row) == row.created_at

\* variant: ORDER BY ... DESC
PrecedesDesc(a, b) == OrderKey(a) > OrderKey(b)

\* ORDER BY ... ASC direction
Precedes(a, b) == OrderKey(a) < OrderKey(b)

\* rows the ORDER BY keys do not tell apart
Tied(a, b) == OrderKey(a) = OrderKey(b)

\* place row, the latest of the scan, into an ordered sequence: before the
\* rows it precedes, and before or after the rows it is tied with as the
\* build's sorter has it
RECURSIVE SortInsert(_, _)
SortInsert(rows, row) ==
    IF rows = <<>> THEN <<row>>
    ELSE IF Precedes(row, Head(rows)) \/ (tieOrder = "reverse" /\ Tied(row, Head(rows)))
         THEN <<row>> \o rows
         ELSE <<Head(rows)>> \o SortInsert(Tail(rows), row)

\* the sorter over the rows of a table scan
RECURSIVE OrderBy(_)
OrderBy(rows) ==
    IF rows = <<>> THEN <<>>
    ELSE SortInsert(OrderBy(SubSeq(rows, 1, Len(rows) - 1)), rows[Len(rows)])

\* variant: only the first disjunct of the WHERE clause
SelectMessagesOneWay(table, p, q) ==
    OrderBy(SelectSeq(table, LAMBDA row :
        SqlEquals(row.sender_id, p) /\ SqlEquals(row.receiver_id, q)))

\* SELECT * FROM messages WHERE ... ORDER BY created_at ASC
SelectMessages(table, p, q) ==
    OrderBy(SelectSeq(table, LAMBDA row : WhereClause(row, p, q)))

\* the history a client fetches for the pair (a, b)
History(table, a, b) == SelectMessages(table, UrlParam(a), UrlParam(b))

\* ------------------------------------------------------------------ init
\* no request answered yet
NoReply == [route |-> "none", status |-> 0, rows |-> <<>>, id |-> 0]

Init ==
    /\ readyState = [c \in Conns |-> "idle"]
    /\ userId = [c \in Conns |-> NULL]
    /\ clients = [u \in UserIds |-> None]
    /\ messages = <<>>
    /\ sent = [c \in Conns |-> <<>>]
    /\ now = 0
    /\ crashed = FALSE
    /\ response = <<>>
    /\ tieOrder \in TieOrders
    /\ foreignKeys \in BOOLEAN
    /\ users \in {SeedUsers, ExistingUsers}
    /\ bookings = <<>>
    /\ reply = NoReply
    /\ wsRef = "null"
    /\ friend = NULL
    /\ input = ""
    /\ view = <<>>
    /\ frames = <<>>
    /\ fetchState = "idle"
    /\ thrown = FALSE
    /\ fetched = <<>>
    /\ received = 0
    /\ isModalOpen = FALSE
    /\ isBookingLoading = FALSE
    /\ isBookingSuccess = FALSE
    /\ bookingFetch = "idle"

\* --------------------------------------------------------------- actions
\* wss.on("connection"): a new socket, its closure userId is null
Connection(c) ==
    /\ ~crashed
    /\ readyState[c] = "idle"
    /\ readyState' = [readyState EXCEPT ![c] = "open"]
    /\ userId' = [userId EXCEPT ![c] = NULL]
    /\ UNCHANGED <<clients, messages, sent, now, crashed, response>>
    /\ UNCHANGED <<buildVars, httpVars, clientVars>>

\* variant: an identity already bound keeps its first handle
RegisterIfAbsent(u, c) ==
    IF Truthy(u) /\ clients[u] = None THEN [clients EXCEPT ![u] = c] ELSE clients

\* variant: clients.set(userId, ws) without the guard
RegisterAlways(u, c) == [clients EXCEPT ![u] = c]

\* clients.set(userId, ws) under if (userId)
Register(u, c) == IF Truthy(u) THEN [clients EXCEPT ![u] = c] ELSE clients

\* variant: auth replays to the new handle the stored messages addressed to u
AuthReplaying(c, u) ==
    /\ ~crashed
    /\ readyState[c] = "open"
    /\ userId' = [userId EXCEPT ![c] = u]
    /\ clients' = Register(u, c)
    /\ LET stored == SelectSeq(messages, LAMBDA row : row.receiver_id = u)
       IN  sent' = [sent EXCEPT ![c] = @ \o
                      [i \in 1..Len(stored) |->
                          [type |-> "chat", senderId |-> stored[i].sender_id,
                           content |-> stored[i].content, createdAt |-> ToISOString]]]
    /\ UNCHANGED <<readyState, messages, now, crashed, response>>
    /\ UNCHANGED <<buildVars, httpVars, clientVars>>

\* ws.on("message"), type "auth"
Auth(c, u) ==
    /\ ~crashed
    /\ readyState[c] = "open"
    /\ userId' = [userId EXCEPT ![c] = u]
    /\ clients' = Register(u, c)
    /\ UNCHANGED <<readyState, messages, sent, now, crashed, response>>
    /\ UNCHANGED <<buildVars, httpVars, clientVars>>

\* the payload of receiverWs.send()
ChatPayload(senderId, content) ==
    [type |-> "chat", senderId |-> senderId, content |-> content,
     createdAt |-> ToISOString]

\* variant: the push is sent to any registered handle, open or not
PushUnchecked(senderId, receiverId, content) ==
    LET receiverWs == clients[receiverId]
    IN  IF receiverWs # None
        THEN [sent EXCEPT ![receiverWs] = Append(@, ChatPayload(senderId, content))]
        ELSE sent

\* variant: the push goes to the handle bound to the sender
PushToSender(senderId, receiverId, content) ==
    LET senderWs == clients[senderId]
    IN  IF Deliverable(senderWs)
        THEN [sent EXCEPT ![senderWs] = Append(@, ChatPayload(senderId, content))]
        ELSE sent

\* the sockets after the push step of the chat branch
Push(senderId, receiverId, content) ==
    LET receiverWs == clients[receiverId]
    IN  IF Deliverable(receiverWs)
        THEN [sent EXCEPT ![receiverWs] = Append(@, ChatPayload(senderId, content))]
        ELSE sent

\* variant: the push is sent before the INSERT runs
ChatPushFirst(c, senderId, receiverId, content) ==
    /\ ~crashed
    /\ readyState[c] = "open"
    /\ Len(messages) < MaxMsgs
    /\ sent' = Push(senderId, receiverId, content)
    /\ IF content = NoContent
       THEN crashed' = TRUE /\ UNCHANGED messages
       ELSE messages' = InsertMessage(senderId, receiverId, content) /\ UNCHANGED crashed
    /\ UNCHANGED <<readyState, userId, clients, now, response>>
    /\ UNCHANGED <<buildVars, httpVars, clientVars>>

\* variant: a chat frame also binds its senderId to the connection
ChatRegistering(c, senderId, receiverId, content) ==
    /\ ~crashed
    /\ readyState[c] = "open"
    /\ Len(messages) < MaxMsgs
    /\ IF content = NoContent
       THEN crashed' = TRUE /\ UNCHANGED <<messages, sent, clients>>
       ELSE /\ messages' = InsertMessage(senderId, receiverId, content)
            /\ sent' = Push(senderId, receiverId, content)
            /\ clients' = Register(senderId, c)
            /\ UNCHANGED crashed
    /\ UNCHANGED <<readyState, userId, now, response>>
    /\ UNCHANGED <<buildVars, httpVars, clientVars>>

\* ws.on("message"), type "chat"
Chat(c, senderId, receiverId, content) ==
    /\ ~crashed
    /\ readyState[c] = "open"
    /\ Len(messages) < MaxMsgs
    /\ IF content = NoContent
       THEN \* NOT NULL constraint: run() throws out of the handler
            /\ crashed' = TRUE
            /\ UNCHANGED <<messages, sent>>
       ELSE /\ messages' = InsertMessage(senderId, receiverId, content)
            /\ sent' = Push(senderId, receiverId, content)
            /\ UNCHANGED crashed
    /\ UNCHANGED <<readyState, userId, clients, now, response>>
    /\ UNCHANGED <<buildVars, httpVars, clientVars>>

\* the transport starts the closing handshake: readyState leaves OPEN before
\* the close event is emitted
Closing(c) ==
    /\ ~crashed
    /\ readyState[c] = "open"
    /\ readyState' = [readyState EXCEPT ![c] = "closing"]
    /\ UNCHANGED <<userId, clients, messages, sent, now, crashed, response>>
    /\ UNCHANGED <<buildVars, httpVars, clientVars>>

\* clients.delete(userId) under if (userId)
Unregister(u) == IF Truthy(u) THEN [clients EXCEPT ![u] = None] ELSE clients

\* variant: the handler dereferences the registry entry of its identity,
\* clients.get(userId)!.terminate(), which throws when there is none
CloseDereferencing(c) ==
    /\ ~crashed
    /\ readyState[c] \in {"open", "closing"}
    /\ readyState' = [readyState EXCEPT ![c] = "closed"]
    /\ IF Truthy(userId[c]) /\ clients[userId[c]] # None
       THEN clients' = Unregister(userId[c]) /\ UNCHANGED crashed
       ELSE crashed' = TRUE /\ UNCHANGED clients
    /\ UNCHANGED <<userId, messages, sent, now, response>>
    /\ UNCHANGED <<buildVars, httpVars, clientVars>>

\* ws.on("close")
Close(c) ==
    /\ ~crashed
    /\ readyState[c] \in {"open", "closing"}
    /\ readyState' = [readyState EXCEPT ![c] = "closed"]
    /\ clients' = Unregister(userId[c])
    /\ UNCHANGED <<userId, messages, sent, now, crashed, response>>
    /\ UNCHANGED <<buildVars, httpVars, clientVars>>

\* app.get("/api/messages/:userId/:otherId")
GetMessages(p, q) ==
    /\ ~crashed
    /\ response' = SelectMessages(messages, p, q)
    /\ UNCHANGED <<readyState, userId, clients, messages, sent, now, crashed>>
    /\ UNCHANGED <<buildVars, httpVars, clientVars>>

\* variant: send() is given a callback that rethrows the write error
SendErrorThrown(c) ==
    /\ ~crashed
    /\ readyState[c] = "open"
    /\ sent[c] # <<>>
    /\ readyState' = [readyState EXCEPT ![c] = "closing"]
    /\ crashed' = TRUE
    /\ UNCHANGED <<userId, clients, messages, sent, now, response>>
    /\ UNCHANGED <<buildVars, httpVars, clientVars>>

\* the socket of c reports a write error for a payload handed to send():
\* send() was called without a callback and the socket has no error
\* listener of the application, so no code of the server runs; the transport
\* takes the socket out of the OPEN state
SendError(c) ==
    /\ ~crashed
    /\ readyState[c] = "open"
    /\ sent[c] # <<>>
    /\ readyState' = [readyState EXCEPT ![c] = "closing"]
    /\ UNCHANGED <<userId, clients, messages, sent, now, crashed, response>>
    /\ UNCHANGED <<buildVars, httpVars, clientVars>>

\* ---------------------------------------------------------- HTTP routes
\* SELECT * FROM users WHERE role = 'friend'
SelectFriends(table) == SelectSeq(table, LAMBDA row : row.role = "friend")

\* variant: SELECT * FROM users WHERE id = ?
SelectUserById(table, p) == SelectSeq(table, LAMBDA row : SqlEquals(row.id, p))

\* SELECT * FROM users WHERE id = ? AND role = 'friend'
SelectFriendById(table, p) ==
    SelectSeq(table, LAMBDA row : SqlEquals(row.id, p) /\ row.role = "friend")

\* app.get("/api/friends")
GetFriends ==
    /\ ~crashed
    /\ reply' = [route |-> "friends", status |-> 200,
                 rows |-> SelectFriends(users), id |-> 0]
    /\ UNCHANGED <<serverVars, buildVars, users, bookings, clientVars>>

\* app.get("/api/friends/:id"): .get() yields the first row or undefined
GetFriend(p) ==
    /\ ~crashed
    /\ LET found == SelectFriendById(users, p)
       IN  reply' = IF found # <<>>
                    THEN [route |-> "friend", status |-> 200,
                          rows |-> <<Head(found)>>, id |-> 0]
                    ELSE [route |-> "friend", status |-> 404,
                          rows |-> <<>>, id |-> 0]
    /\ UNCHANGED <<serverVars, buildVars, users, bookings, clientVars>>

\* FOREIGN KEY(...) REFERENCES users(id), where the build enforces it
References(u) == \E i \in 1..Len(users) : users[i].id = u

ForeignKeysHold(customerId, friendId) ==
    foreignKeys => (References(customerId) /\ References(friendId))

\* variant: the ids bound in the other order
InsertBookingSwapped(customerId, friendId, activity, duration) ==
    Append(bookings, [id          |-> Len(bookings) + 1,
                      customer_id |-> friendId,
                      friend_id   |-> customerId,
                      activity    |-> activity,
                      duration    |-> duration,
                      status      |-> "pending",
                      created_at  |-> CurrentTimestamp])

\* INSERT INTO bookings (customer_id, friend_id, activity, duration)
InsertBooking(customerId, friendId, activity, duration) ==
    Append(bookings, [id          |-> Len(bookings) + 1,
                      customer_id |-> customerId,
                      friend_id   |-> friendId,
                      activity    |-> activity,
                      duration    |-> duration,
                      status      |-> "pending",
                      created_at  |-> CurrentTimestamp])

\* app.post("/api/bookings"): run() throws on a constraint failure and the
\* framework answers 500
BookingsRoute(customerId, friendId, activity, duration) ==
    /\ ~crashed
    /\ Len(bookings) < MaxBookings
    /\ IF ForeignKeysHold(customerId, friendId)
       THEN /\ bookings' = InsertBooking(customerId, friendId, activity, duration)
            /\ reply' = [route |-> "bookings", status |-> 200,
                         rows |-> <<>>, id |-> Len(bookings')]
       ELSE /\ reply' = [route |-> "bookings", status |-> 500,
                         rows |-> <<>>, id |-> 0]
            /\ UNCHANGED bookings
    /\ UNCHANGED <<serverVars, buildVars, users>>

\* a POST /api/bookings of any client
PostBookings(customerId, friendId, activity, duration) ==
    /\ BookingsRoute(customerId, friendId, activity, duration)
    /\ UNCHANGED clientVars

\* ---------------------------------------------------------- chat client
\* new Date(msg.created_at): the instant, in ticks, that a timestamp stored
\* by CURRENT_TIMESTAMP names
DateOfStored(created_at) == created_at * TicksPerSecond

\* currentUserId = 1, the mock current user
CurrentUserId == 1

\* what a user can type
InputTexts == {"", " ", "hi", "yo"}

\* input.trim()
Trim(text) == IF text = " " THEN "" ELSE text

\* a frame of the client: {type: 'auth', userId} or
\* {type: 'chat', senderId, receiverId, content}; NULL / NoContent = no such field
AuthFrame(u) ==
    [type |-> "auth", userId |-> u, senderId |-> NULL, receiverId |-> NULL,
     content |-> NoContent]

ChatFrame(senderId, receiverId, content) ==
    [type |-> "chat", userId |-> NULL, senderId |-> senderId,
     receiverId |-> receiverId, content |-> content]

\* the entry sendMessage appends to the view (it has no id)
LocalMessage(senderId, receiverId, content) ==
    [id |-> NULL, sender_id |-> senderId, receiver_id |-> receiverId,
     content |-> content, created_at |-> ToISOString]

\* useEffect of ChatWidget: starts the history fetch and creates the socket
UseEffect(f) ==
    /\ wsRef = "null"
    /\ friend' = f
    /\ fetchState' = "pending"
    /\ wsRef' = "connecting"
    /\ UNCHANGED <<input, view, frames, thrown, fetched, received>>
    /\ UNCHANGED <<serverVars, buildVars, httpVars, dialogVars>>

\* the server side of the widget's WebSocket
WidgetConn == "c1"

\* the server answers the history request of the widget: the body is the
\* history of the pair at this moment and travels back to the client
FetchHandled ==
    /\ fetchState = "pending"
    /\ ~crashed
    /\ response' = History(messages, CurrentUserId, friend)
    /\ fetched' = response'
    /\ fetchState' = "answered"
    /\ UNCHANGED <<wsRef, friend, input, view, frames, thrown, received>>
    /\ UNCHANGED <<readyState, userId, clients, messages, sent, now, crashed>>
    /\ UNCHANGED <<buildVars, httpVars, dialogVars>>

\* .then(data => setMessages(data)) of the history fetch: the body replaces
\* the view
FetchResolved ==
    /\ fetchState = "answered"
    /\ view' = fetched
    /\ fetchState' = "done"
    /\ UNCHANGED <<wsRef, friend, input, frames, thrown, fetched, received>>
    /\ UNCHANGED <<serverVars, buildVars, httpVars, dialogVars>>

\* ws.current.onopen
SocketOpen ==
    /\ wsRef = "connecting"
    /\ Len(frames) < MaxFrames
    /\ wsRef' = "open"
    /\ frames' = Append(frames, AuthFrame(CurrentUserId))
    /\ UNCHANGED <<friend, input, view, fetchState, thrown, fetched, received>>
    /\ UNCHANGED <<serverVars, buildVars, httpVars, dialogVars>>

\* the connection fails or is lost; the widget stays mounted and keeps the
\* socket in ws.current
SocketClosed ==
    /\ wsRef \in {"connecting", "open"}
    /\ wsRef' = "closed"
    /\ UNCHANGED <<friend, input, view, frames, fetchState, thrown, fetched, received>>
    /\ UNCHANGED <<serverVars, buildVars, httpVars, dialogVars>>

\* onChange of the input
SetInput(text) ==
    /\ input' = text
    /\ UNCHANGED <<wsRef, friend, view, frames, fetchState, thrown, fetched, received>>
    /\ UNCHANGED <<serverVars, buildVars, httpVars, dialogVars>>

\* sendMessage: send() of a CONNECTING socket throws InvalidStateError, which
\* ends the handler; a CLOSING or CLOSED socket discards the data
SendMessage ==
    /\ Len(view) < MaxView
    /\ Len(frames) < MaxFrames
    /\ IF Trim(input) = "" \/ wsRef = "null"
       THEN UNCHANGED <<frames, view, input, thrown>>
       ELSE IF wsRef = "connecting"
       THEN thrown' = TRUE /\ UNCHANGED <<frames, view, input>>
       ELSE /\ frames' = IF wsRef = "open"
                         THEN Append(frames, ChatFrame(CurrentUserId, friend, input))
                         ELSE frames
            /\ view' = Append(view, LocalMessage(CurrentUserId, friend, input))
            /\ input' = ""
            /\ UNCHANGED thrown
    /\ UNCHANGED <<wsRef, friend, fetchState, fetched, received>>
    /\ UNCHANGED <<serverVars, buildVars, httpVars, dialogVars>>

\* the cleanup of the effect closes the socket; the widget and its state go
Cleanup ==
    /\ wsRef # "null"
    /\ wsRef' = "null"
    /\ friend' = NULL
    /\ input' = ""
    /\ view' = <<>>
    /\ fetchState' = "idle"
    /\ thrown' = FALSE
    /\ fetched' = <<>>
    /\ received' = Len(sent[WidgetConn])
    /\ UNCHANGED frames
    /\ UNCHANGED <<serverVars, buildVars, httpVars, dialogVars>>

\* the entry onmessage appends to the view (it has no id)
PushedMessage(data) ==
    [id |-> NULL, sender_id |-> data.senderId, receiver_id |-> CurrentUserId,
     content |-> data.content, created_at |-> data.createdAt]

\* ws.current.onmessage: the next payload the server pushed to the widget's
\* socket arrives
OnMessage ==
    /\ wsRef = "open"
    /\ received < Len(sent[WidgetConn])
    /\ Len(view) < MaxView
    /\ LET data == sent[WidgetConn][received + 1]
       IN  view' = IF data.type = "chat" /\ data.senderId = friend
                   THEN Append(view, PushedMessage(data))
                   ELSE view
    /\ received' = received + 1
    /\ UNCHANGED <<wsRef, friend, input, frames, fetchState, thrown, fetched>>
    /\ UNCHANGED <<serverVars, buildVars, httpVars, dialogVars>>

\* -------------------------------------------------------- booking dialog
\* customerId: 1, the mock customer of handleConfirmBooking
MockCustomerId == 1

\* "Book Now": setIsModalOpen(true)
OpenModal ==
    /\ ~isModalOpen
    /\ isModalOpen' = TRUE
    /\ UNCHANGED <<isBookingLoading, isBookingSuccess, bookingFetch>>
    /\ UNCHANGED <<serverVars, buildVars, httpVars, chatVars>>

\* a click on the backdrop: !isBookingSuccess && setIsModalOpen(false); the
\* close and Cancel buttons do the same while they are shown
CloseModal ==
    /\ isModalOpen
    /\ ~isBookingSuccess
    /\ isModalOpen' = FALSE
    /\ UNCHANGED <<isBookingLoading, isBookingSuccess, bookingFetch>>
    /\ UNCHANGED <<serverVars, buildVars, httpVars, chatVars>>

\* handleConfirmBooking up to its first await: "Confirm & Pay" is shown only
\* while the modal is neither loading nor confirmed
HandleConfirmBooking ==
    /\ isModalOpen
    /\ ~isBookingLoading
    /\ ~isBookingSuccess
    /\ bookingFetch = "idle"
    /\ Len(bookings) < MaxBookings
    /\ isBookingLoading' = TRUE
    /\ bookingFetch' = "pending"
    /\ UNCHANGED <<isModalOpen, isBookingSuccess>>
    /\ UNCHANGED <<serverVars, buildVars, httpVars, chatVars>>

\* the server answers the POST of the dialog and fetch resolves: response.ok
\* is true for a status in 200..299
BookingServed(friendId, activity, duration) ==
    /\ bookingFetch = "pending"
    /\ BookingsRoute(MockCustomerId, friendId, activity, duration)
    /\ bookingFetch' = IF reply'.status = 200 THEN "ok" ELSE "notok"
    /\ UNCHANGED <<isModalOpen, isBookingLoading, isBookingSuccess>>
    /\ UNCHANGED chatVars

\* fetch rejects (network error): the catch block runs
BookingRejected ==
    /\ bookingFetch = "pending"
    /\ isBookingLoading' = FALSE
    /\ bookingFetch' = "idle"
    /\ UNCHANGED <<isModalOpen, isBookingSuccess>>
    /\ UNCHANGED <<serverVars, buildVars, httpVars, chatVars>>

\* the 1000 ms delay ends and the handler runs to its end: if (response.ok)
\* has no else branch
DelayElapsed ==
    /\ bookingFetch \in {"ok", "notok"}
    /\ IF bookingFetch = "ok"
       THEN /\ isBookingLoading' = FALSE
            /\ isBookingSuccess' = TRUE
            /\ bookingFetch' = "confirmed"
       ELSE /\ bookingFetch' = "idle"
            /\ UNCHANGED <<isBookingLoading, isBookingSuccess>>
    /\ UNCHANGED isModalOpen
    /\ UNCHANGED <<serverVars, buildVars, httpVars, chatVars>>

\* the 2000 ms timer set on success
SuccessTimeout ==
    /\ bookingFetch = "confirmed"
    /\ isModalOpen' = FALSE
    /\ isBookingSuccess' = FALSE
    /\ bookingFetch' = "idle"
    /\ UNCHANGED isBookingLoading
    /\ UNCHANGED <<serverVars, buildVars, httpVars, chatVars>>

\* the wall clock advances
Tick ==
    /\ now < MaxTime
    /\ now' = now + 1
    /\ UNCHANGED <<readyState, userId, clients, messages, sent, crashed, response>>
    /\ UNCHANGED <<buildVars, httpVars, clientVars>>

\* every handler of the server, the transport, the chat client and the clock
Next ==
    \/ \E c \in Conns : Connection(c)
    \/ \E c \in Conns, u \in UserIds : Auth(c, u)
    \/ \E c \in Conns, s \in UserIds, r \in UserIds, x \in Contents \cup {NoContent} :
          Chat(c, s, r, x)
    \/ \E c \in Conns : Closing(c)
    \/ \E c \in Conns : SendError(c)
    \/ \E c \in Conns : Close(c)
    \/ \E p \in Params, q \in Params : GetMessages(p, q)
    \/ GetFriends
    \/ \E p \in Params : GetFriend(p)
    \/ \E cu \in UserIds, fr \in UserIds, a \in Activities, d \in Durations :
          PostBookings(cu, fr, a, d)
    \/ \E f \in Users : UseEffect(f)
    \/ FetchHandled
    \/ FetchResolved
    \/ SocketOpen
    \/ SocketClosed
    \/ \E t \in InputTexts : SetInput(t)
    \/ SendMessage
    \/ OnMessage
    \/ Cleanup
    \/ OpenModal
    \/ CloseModal
    \/ HandleConfirmBooking
    \/ \E fr \in UserIds, a \in Activities, d \in Durations : BookingServed(fr, a, d)
    \/ BookingRejected
    \/ DelayElapsed
    \/ SuccessTimeout
    \/ Tick

Spec == Init /\ [][Next]_vars

\* a freshly seeded database on a build whose sorter keeps scan order and
\* which enforces foreign keys
FreshInstall ==
    /\ Init
    /\ tieOrder = "rowid"
    /\ foreignKeys = TRUE
    /\ users = SeedUsers

\* The WebSocket handlers alone: connection, auth, chat, close. No handler
\* reads the clock except to stamp a record or a payload, and the HTTP routes
\* neither read nor write the registry, so the registry and the relay are
\* explored with the clock at rest and chat frames between user records.
NextRelay ==
    \/ \E c \in Conns : Connection(c)
    \/ \E c \in Conns, u \in UserIds : Auth(c, u)
    \/ \E c \in Conns, s \in Users, r \in Users, x \in Contents \cup {NoContent} :
          Chat(c, s, r, x)
    \/ \E c \in Conns : Closing(c)
    \/ \E c \in Conns : SendError(c)
    \/ \E c \in Conns : Close(c)

SpecRelay == FreshInstall /\ [][NextRelay]_vars

\* The message log over time and its retrieval over HTTP: chat frames with any
\* ids, the clock and the history route, with no connection registered, on
\* either kind of sorter.
NextHistory ==
    \/ \E c \in Conns : Connection(c)
    \/ \E c \in Conns, s \in UserIds, r \in UserIds, x \in Contents \cup {NoContent} :
          Chat(c, s, r, x)
    \/ \E p \in Params, q \in Params : GetMessages(p, q)
    \/ Tick

\* a freshly seeded database on either kind of sorter
FreshDatabase ==
    /\ Init
    /\ foreignKeys = TRUE
    /\ users = SeedUsers

SpecHistory == FreshDatabase /\ [][NextHistory]_vars

\* The friends and bookings routes, over either users table and on builds
\* with and without foreign key enforcement.
NextApi ==
    \/ GetFriends
    \/ \E p \in Params : GetFriend(p)
    \/ \E cu \in UserIds, fr \in UserIds, a \in Activities, d \in Durations :
          PostBookings(cu, fr, a, d)

\* either users table, with and without foreign key enforcement
AnyDatabase ==
    /\ Init
    /\ tieOrder = "rowid"

SpecApi == AnyDatabase /\ [][NextApi]_vars

\* Every operation of the server side by side: the WebSocket handlers of one
\* connection and the three kinds of HTTP route, each with one request.
NextServer ==
    \/ Connection("c1")
    \/ \E u \in UserIds : Auth("c1", u)
    \/ \E s \in Users, r \in Users, x \in {"hi", NoContent} : Chat("c1", s, r, x)
    \/ Closing("c1")
    \/ SendError("c1")
    \/ Close("c1")
    \/ \E p \in {"1"}, q \in {"1", "2"} : GetMessages(p, q)
    \/ GetFriends
    \/ GetFriend("2")
    \/ \E fr \in {0, 2} : PostBookings(1, fr, "Movie Partner", "1 Hour")

SpecServer == FreshInstall /\ [][NextServer]_vars

\* The chat client alone, against a server that has persisted nothing.
NextClient ==
    \/ \E f \in Users : UseEffect(f)
    \/ FetchHandled
    \/ FetchResolved
    \/ SocketOpen
    \/ SocketClosed
    \/ \E t \in InputTexts : SetInput(t)
    \/ SendMessage
    \/ Cleanup

SpecClient == FreshInstall /\ [][NextClient]_vars

\* the server accepts the socket the widget created
WidgetAccepted ==
    /\ wsRef \in {"connecting", "open"}
    /\ Connection(WidgetConn)

\* the server handles the auth frame the widget sent from onopen
WidgetAuth ==
    /\ userId[WidgetConn] = NULL
    /\ \E i \in 1..Len(frames) :
          frames[i].type = "auth" /\ Auth(WidgetConn, frames[i].userId)

\* the friend of the open chat sends a chat message to the current user
\* over a connection of its own
FriendChat(content) ==
    /\ friend # NULL
    /\ Chat("c2", friend, CurrentUserId, content)

\* One mounted chat widget of a user who only reads, the server, the friend
\* and the clock: the history request, its response and the pushes travel
\* independently of each other.
NextWidget ==
    \/ \E f \in Users \ {CurrentUserId} : UseEffect(f)
    \/ SocketOpen
    \/ WidgetAccepted
    \/ WidgetAuth
    \/ Connection("c2")
    \/ \E x \in Contents : FriendChat(x)
    \/ FetchHandled
    \/ FetchResolved
    \/ OnMessage
    \/ Tick

SpecWidget == FreshInstall /\ [][NextWidget]_vars

\* the POST of the dialog settles: it is answered or it fails
BookingSettled ==
    \/ \E fr \in UserIds, a \in Activities, d \in Durations : BookingServed(fr, a, d)
    \/ BookingRejected

\* The booking dialog of a profile page and the bookings route. The page
\* may show any friend id; the request always settles and the timers fire.
NextDialog ==
    \/ OpenModal
    \/ CloseModal
    \/ HandleConfirmBooking
    \/ BookingSettled
    \/ DelayElapsed
    \/ SuccessTimeout

SpecDialog ==
    /\ AnyDatabase
    /\ [][NextDialog]_vars
    /\ WF_vars(BookingSettled)
    /\ WF_vars(DelayElapsed)
    /\ WF_vars(SuccessTimeout)

\* ================================================================ claims

\* the rows of table exchanged between a and b, as a set of row ids
Exchanged(table, a, b) ==
    {i \in 1..Len(table) :
        \/ (table[i].sender_id = a /\ table[i].receiver_id = b)
        \/ (table[i].sender_id = b /\ table[i].receiver_id = a)}

\* the number of payloads pushed so far
RECURSIVE TotalSent(_)
TotalSent(cs) ==
    IF cs = {} THEN 0
    ELSE LET c == CHOOSE d \in cs : TRUE IN Len(sent[c]) + TotalSent(cs \ {c})

\* C1: every chat message with content adds exactly one record to the log, and
\* the history of its (sender, receiver) pair grows by exactly one record,
\* whatever the receiver's registration and connection state.
C1_OneRecordPerChat ==
    [][\A c \in Conns, s \in Users, r \in Users, x \in Contents :
         Chat(c, s, r, x) =>
            /\ Len(messages') = Len(messages) + 1
            /\ SubSeq(messages', 1, Len(messages)) = messages
            /\ Len(History(messages', s, r)) = Len(History(messages, s, r)) + 1]_vars

\* two messages to the same receiver: the first pushed to its open handle, the
\* second persisted while that handle is registered but no longer open
C1_Witness ==
    /\ Len(messages) = 2
    /\ messages[1].receiver_id = messages[2].receiver_id
    /\ LET h == clients[messages[1].receiver_id]
       IN  /\ h # None
           /\ readyState[h] = "closing"
           /\ Len(sent[h]) = 1
    /\ Len(History(messages, messages[2].sender_id, messages[2].receiver_id)) = 2

\* C2: while a chat message for r is handled, a push is sent if and only if the
\* registry holds a handle for r and that handle is open; without a push the
\* message is persisted all the same.
C2_PushIffOpenHandle ==
    [][\A c \in Conns, s \in Users, r \in Users, x \in Contents :
         Chat(c, s, r, x) =>
            /\ (sent' # sent) <=> (clients[r] # None /\ readyState[clients[r]] = "open")
            /\ Len(messages') = Len(messages) + 1]_vars

\* one message was pushed, a later one found nobody registered
C2_Witness ==
    /\ Len(messages) = 2
    /\ TotalSent(Conns) = 1
    /\ \A u \in UserIds : clients[u] = None

\* C3 (as claimed): the close event of a connection leaves every binding of
\* another connection in place.
C3_OtherCloseKeepsBinding ==
    [][\A d \in Conns :
         Close(d) => \A u \in Users :
            (clients[u] # None /\ clients[u] # d) => clients'[u] = clients[u]]_vars

\* C4 (as claimed): once the close event of c is handled, no identity is bound
\* to c.
C4_ClosedHandleUnbound ==
    \A c \in Conns : readyState[c] = "closed" => \A u \in UserIds : clients[u] # c

\* C5: an auth for u on c2 while u is bound to c1 replaces the binding, and a
\* push for an identity goes to no handle but the one bound to it.
C5_Replacement ==
    [][/\ \A c2 \in Conns, u \in Users :
            (Auth(c2, u) /\ clients[u] # None /\ clients[u] # c2) => clients'[u] = c2
       /\ \A c \in Conns, s \in Users, r \in Users, x \in Contents :
            Chat(c, s, r, x) => \A d \in Conns : d # clients[r] => sent'[d] = sent[d]]_vars

\* c1 authenticated as u and is still open, c2 replaced it and got the push
C5_Witness ==
    \E u \in Users, c1 \in Conns, c2 \in Conns :
        /\ c1 # c2
        /\ userId[c1] = u /\ readyState[c1] = "open" /\ sent[c1] = <<>>
        /\ clients[u] = c2 /\ Len(sent[c2]) = 1
        /\ \A v \in Users \ {u} : clients[v] = None
        /\ Len(messages) = 1 /\ messages[1].receiver_id = u

\* C6 (as claimed): after an auth carrying u on c the registry maps u to c, for
\* every number a client can send.
C6_RegistrationAlwaysSucceeds ==
    [][\A c \in Conns, u \in UserIds : Auth(c, u) => clients'[u] = c]_vars

\* C6 (amended): after an auth carrying a non-zero userId u on c the registry
\* maps u to c and no other identity's binding changes; an auth carrying 0
\* leaves the registry unchanged.
C6_RegistrationOfNonZero ==
    [][\A c \in Conns, u \in UserIds :
         Auth(c, u) =>
            IF u # 0
            THEN clients' = [clients EXCEPT ![u] = c]
            ELSE clients' = clients]_vars

\* one connection sent auth with 0 and is bound nowhere, the other is bound
C6_Witness ==
    \E c \in Conns, d \in Conns :
        /\ userId[c] = 0 /\ \A u \in UserIds : clients[u] # c
        /\ userId[d] \in Users /\ clients[userId[d]] = d

\* C7: the close event of a connection that never sent auth raises no error
\* and leaves the registry and the message log unchanged.
C7_CloseWithoutAuthIsNoOp ==
    [][\A c \in Conns :
         (Close(c) /\ userId[c] = NULL) =>
            /\ clients' = clients
            /\ messages' = messages
            /\ crashed' = crashed]_vars

\* a connection closed without auth while another one is bound and a message
\* is in the log
C7_Witness ==
    \E c \in Conns, d \in Conns :
        /\ readyState[c] = "closed" /\ userId[c] = NULL
        /\ userId[d] \in Users /\ clients[userId[d]] = d
        /\ messages # <<>>
        /\ ~crashed

\* C8: history retrieval for (A, B) and for (B, A) return the same sequence.
C8_HistorySymmetric ==
    \A p \in Params, q \in Params :
        SelectMessages(messages, p, q) = SelectMessages(messages, q, p)

\* a response holding one message in each direction of the pair (1, 2)
C8_Witness ==
    /\ response = SelectMessages(messages, "1", "2")
    /\ Len(response) = 2
    /\ response[1].sender_id = 1 /\ response[2].sender_id = 2

\* C9: history retrieval for (A, B) holds exactly the persisted messages whose
\* (sender, receiver) is (A, B) or (B, A), each once.
C9_HistoryExact ==
    \A a \in UserIds, b \in UserIds :
        LET h == History(messages, a, b)
        IN  /\ {h[i].id : i \in 1..Len(h)} = Exchanged(messages, a, b)
            /\ Len(h) = Cardinality(Exchanged(messages, a, b))
            /\ \A i \in 1..Len(h) : h[i] = messages[h[i].id]

\* a response for (1, 2) with one message while the log holds a message of
\* another pair that shares an identity with it
C9_Witness ==
    /\ Len(messages) = 2
    /\ response = History(messages, 1, 2)
    /\ Len(response) = 1
    /\ \E i \in 1..2 : messages[i].sender_id = 1 /\ messages[i].receiver_id = 1

\* C10: the list history retrieval returns is non-decreasing in creation time.
C10_HistoryOrdered ==
    \A p \in Params, q \in Params :
        LET h == SelectMessages(messages, p, q)
        IN  \A i \in 1..(Len(h) - 1) : h[i].created_at <= h[i + 1].created_at

\* a response of two messages created in different seconds
C10_Witness ==
    /\ Len(response) = 2
    /\ response = SelectMessages(messages, "2", "1")
    /\ response[1].created_at < response[2].created_at

\* C11 (as claimed): of two messages of one pair, the one handled earlier
\* (the smaller rowid) comes first in the pair's history, also when both carry
\* the same creation timestamp.
C11_HistoryInHandlingOrder ==
    \A a \in UserIds, b \in UserIds :
        LET h == History(messages, a, b)
        IN  \A i \in 1..(Len(h) - 1) : h[i].id < h[i + 1].id

\* C12: a chat message whose INSERT fails adds no record and sends no push,
\* also when every receiver is registered and open.
C12_FailedWriteNoPartialEffect ==
    [][\A c \in Conns, s \in Users, r \in Users :
         Chat(c, s, r, NoContent) => (messages' = messages /\ sent' = sent)]_vars

\* the INSERT failed while both users were registered with open handles
C12_Witness ==
    /\ crashed
    /\ \A u \in Users : clients[u] # None /\ readyState[clients[u]] = "open"
    /\ TotalSent(Conns) = 0
    /\ messages = <<>>

\* C13: a push does not make the chat handler raise, and a write error of the
\* push raises nothing either; the record stays in the log and the registry
\* is unchanged.
C13_PushFailureSwallowed ==
    [][/\ \A c \in Conns, s \in Users, r \in Users, x \in Contents :
            (Chat(c, s, r, x) /\ sent' # sent) =>
                /\ crashed' = FALSE
                /\ Len(messages') = Len(messages) + 1
                /\ clients' = clients
       /\ \A c \in Conns :
            SendError(c) =>
                /\ crashed' = FALSE
                /\ messages' = messages
                /\ clients' = clients]_vars

\* the socket a message was pushed to has left the OPEN state; the server
\* runs, the record is in the log and the binding is in the registry
C13_Witness ==
    \E c \in Conns :
        /\ readyState[c] = "closing"
        /\ Len(sent[c]) = 1
        /\ Len(messages) = 1
        /\ clients[messages[1].receiver_id] = c
        /\ ~crashed

\* C14: a push goes to exactly one handle, the one bound to the receiver, and
\* its payload has type "chat", the senderId and the content of the frame.
C14_PushToReceiverOnly ==
    [][\A c \in Conns, s \in Users, r \in Users, x \in Contents :
         (Chat(c, s, r, x) /\ sent' # sent) =>
            LET d == clients[r]
            IN  /\ d \in Conns
                /\ \A e \in Conns \ {d} : sent'[e] = sent[e]
                /\ Len(sent'[d]) = Len(sent[d]) + 1
                /\ SubSeq(sent'[d], 1, Len(sent[d])) = sent[d]
                /\ LET p == sent'[d][Len(sent'[d])]
                   IN  p.type = "chat" /\ p.senderId = s /\ p.content = x]_vars

\* sender and receiver are registered on different open handles and only the
\* receiver's handle got the payload
C14_Witness ==
    \E d \in Conns, e \in Conns :
        /\ d # e
        /\ Len(messages) = 1
        /\ messages[1].sender_id # messages[1].receiver_id
        /\ clients[messages[1].sender_id] = e /\ readyState[e] = "open"
        /\ clients[messages[1].receiver_id] = d
        /\ sent[e] = <<>>
        /\ Len(sent[d]) = 1
        /\ sent[d][1].senderId = messages[1].sender_id
        /\ sent[d][1].content = messages[1].content

\* C15: the message log is append-only: every step of the server keeps every
\* persisted record, unchanged and in place.
C15_LogAppendOnly ==
    [][/\ Len(messages') >= Len(messages)
       /\ SubSeq(messages', 1, Len(messages)) = messages]_vars

\* auth, chat, close, history retrieval, the friends route and the bookings
\* route have all acted on a log of two records
C15_Witness ==
    /\ Len(messages) = 2
    /\ userId["c1"] # NULL
    /\ readyState["c1"] = "closed"
    /\ response # <<>>
    /\ bookings # <<>>
    /\ reply.route = "friend"

\* C16: a payload is sent only while its own chat message is handled: no later
\* event sends anything, and every message stays in its pair's history.
C16_NoLaterPush ==
    [][/\ \A d \in Conns :
            sent'[d] # sent[d] =>
                /\ Len(messages') = Len(messages) + 1
                /\ Len(sent'[d]) = Len(sent[d]) + 1
                /\ SubSeq(sent'[d], 1, Len(sent[d])) = sent[d]
                /\ sent'[d][Len(sent'[d])].senderId = messages'[Len(messages')].sender_id
                /\ sent'[d][Len(sent'[d])].content = messages'[Len(messages')].content
       /\ \A i \in 1..Len(messages') :
            LET h == History(messages', messages'[i].sender_id, messages'[i].receiver_id)
            IN  \E k \in 1..Len(h) : h[k] = messages'[i]]_vars

\* the first message to r was not pushed; r then became reachable and got the
\* second message only
C16_Witness ==
    \E d \in Conns :
        /\ Len(messages) = 2
        /\ messages[1].receiver_id = messages[2].receiver_id
        /\ messages[1].content # messages[2].content
        /\ clients[messages[2].receiver_id] = d
        /\ readyState[d] = "open"
        /\ TotalSent(Conns) = 1
        /\ Len(sent[d]) = 1
        /\ sent[d][1].content = messages[2].content

\* C17 (as claimed): a submit with a non-blank input and a socket in ws.current
\* sends one chat frame from the current user to the friend and appends one
\* message with that sender, receiver and content to the view; a submit with
\* a blank input changes neither.
C17_SubmitSendsAndAppends ==
    [][SendMessage =>
         IF Trim(input) # "" /\ wsRef # "null"
         THEN /\ frames' = Append(frames, ChatFrame(CurrentUserId, friend, input))
              /\ Len(view') = Len(view) + 1
              /\ SubSeq(view', 1, Len(view)) = view
              /\ view'[Len(view')].sender_id = CurrentUserId
              /\ view'[Len(view')].receiver_id = friend
              /\ view'[Len(view')].content = input
         ELSE frames' = frames /\ view' = view]_vars

\* C18 (as claimed): each POST /bookings creates one booking holding the four
\* values of the request and returns its id, which no earlier booking has.
C18_BookingCreated ==
    [][\A cu \in UserIds, fr \in UserIds, a \in Activities, d \in Durations :
         PostBookings(cu, fr, a, d) =>
            /\ Len(bookings') = Len(bookings) + 1
            /\ SubSeq(bookings', 1, Len(bookings)) = bookings
            /\ LET b == bookings'[Len(bookings')]
               IN  /\ b.customer_id = cu /\ b.friend_id = fr
                   /\ b.activity = a /\ b.duration = d
                   /\ reply'.status = 200 /\ reply'.id = b.id
            /\ \A i \in 1..Len(bookings) : bookings[i].id # reply'.id]_vars

\* C18 (amended): each POST /bookings whose customerId and friendId are ids of
\* users, or which runs on a build that does not enforce foreign keys, creates
\* one booking holding the four values of the request and returns its id,
\* which no earlier booking has; otherwise it creates nothing and fails.
C18_BookingCreatedForUsers ==
    [][\A cu \in UserIds, fr \in UserIds, a \in Activities, d \in Durations :
         PostBookings(cu, fr, a, d) =>
            IF \/ ~foreignKeys
               \/ /\ \E i \in 1..Len(users) : users[i].id = cu
                  /\ \E i \in 1..Len(users) : users[i].id = fr
            THEN /\ Len(bookings') = Len(bookings) + 1
                 /\ SubSeq(bookings', 1, Len(bookings)) = bookings
                 /\ LET b == bookings'[Len(bookings')]
                    IN  /\ b.customer_id = cu /\ b.friend_id = fr
                        /\ b.activity = a /\ b.duration = d
                        /\ reply'.status = 200 /\ reply'.id = b.id
                 /\ \A i \in 1..Len(bookings) : bookings[i].id # reply'.id
            ELSE bookings' = bookings /\ reply'.status = 500]_vars

\* the second booking of a run, between two different users, was answered
\* with its id
C18_Witness ==
    /\ Len(bookings) = 2
    /\ reply.route = "bookings" /\ reply.status = 200 /\ reply.id = 2
    /\ bookings[2].id = 2 /\ bookings[1].id = 1
    /\ bookings[2].customer_id = 1 /\ bookings[2].friend_id = 2
    /\ bookings[1].activity # bookings[2].activity

\* C19: GET /friends/{id} answers 404 without a record when no user has that id
\* or the user is no friend, and otherwise answers with that user's row.
C19_FriendOrNotFound ==
    [][\A p \in Params :
         GetFriend(p) =>
            LET ids == {u \in UserIds : UrlParam(u) = p}
                hit == {i \in 1..Len(users) :
                           users[i].id \in ids /\ users[i].role = "friend"}
            IN  IF hit = {}
                THEN reply'.status = 404 /\ reply'.rows = <<>>
                ELSE /\ reply'.status = 200
                     /\ \E i \in hit : reply'.rows = <<users[i]>>]_vars

\* a request was answered 404 on a users table that holds a customer
C19_Witness ==
    /\ users = ExistingUsers
    /\ reply.route = "friend"
    /\ reply.status = 404
    /\ reply.rows = <<>>

\* C20: only auth and close events change the registry.
C20_RegistryChangedByAuthAndClose ==
    [][clients' # clients =>
         \E c \in Conns : (\E u \in UserIds : Auth(c, u)) \/ Close(c)]_vars

\* a binding is in the registry after chat messages, history retrieval, a
\* booking and the friends route
C20_Witness ==
    /\ \E u \in Users : clients[u] = "c1"
    /\ Len(messages) = 2
    /\ response # <<>>
    /\ bookings # <<>>
    /\ reply.route = "friends"

\* C21 (as claimed): a chat message is persisted or pushed only when its
\* senderId is the identity its connection authenticated as; a chat message
\* from an unauthenticated connection, or with another senderId, changes
\* neither the log nor any socket.
C21_SenderAuthentic ==
    [][\A c \in Conns, s \in Users, r \in Users, x \in Contents :
         Chat(c, s, r, x) =>
            \/ userId[c] = s
            \/ (messages' = messages /\ sent' = sent)]_vars

\* C22 (as claimed): in every reachable state a connection handle is bound in
\* the registry under at most one user identity.
C22_OneIdentityPerHandle ==
    \A c \in Conns : Cardinality({u \in Users : clients[u] = c}) <= 1

\* the entries of the view that show sender s, receiver r and content x
Shown(s, r, x) ==
    {k \in 1..Len(view) :
        view[k].sender_id = s /\ view[k].receiver_id = r /\ view[k].content = x}

\* the persisted messages with sender s, receiver r and content x
Persisted(s, r, x) ==
    {j \in 1..Len(messages) :
        /\ messages[j].sender_id = s /\ messages[j].receiver_id = r
        /\ messages[j].content = x}

\* C23 (as claimed): once the history fetch has resolved and every push in
\* flight has been delivered, each persisted message of the (current user,
\* friend) pair appears exactly once in the view of the chat client; stated
\* here for the runs in which every message of the pair was pushed to the
\* widget.
C23_ViewShowsEachMessageOnce ==
    (/\ fetchState = "done"
     /\ wsRef = "open"
     /\ Len(sent[WidgetConn]) = Len(messages)
     /\ received = Len(sent[WidgetConn])) =>
        \A j \in 1..Len(messages) :
            LET m == messages[j]
            IN  Cardinality(Shown(m.sender_id, m.receiver_id, m.content))
                    = Cardinality(Persisted(m.sender_id, m.receiver_id, m.content))

\* C24 (as claimed): the createdAt carried by the push of a message names the
\* same instant as the creation timestamp stored for that message.
C24_PushTimeIsStoredTime ==
    [][\A c \in Conns, s \in Users, r \in Users, x \in Contents :
         (Chat(c, s, r, x) /\ sent' # sent) =>
            \A d \in Conns :
                sent'[d] # sent[d] =>
                    sent'[d][Len(sent'[d])].createdAt
                        = DateOfStored(messages'[Len(messages')].created_at)]_vars

\* C25 (as claimed): after Confirm sets the loading flag, the flag eventually
\* returns to false, for every outcome of the POST /bookings request.
C25_LoadingEventuallyEnds == isBookingLoading ~> ~isBookingLoading

====
